---- MODULE Spec2Model ----
(***************************************************************************)
(* State-machine model of the airtable_to_cvent_update batch jobs:         *)
(*   - the Speaker-Session dedup/mirror job (sessions_dedup_sync.py),      *)
(*   - the session field-merge of update_cvent_session (main.py),          *)
(*   - the speaker roster reconciliation update_session_speakers (main.py).*)
(* Each job has its own specification over the shared variable list; the   *)
(* variables of the other jobs stay at their initial values.               *)
(***************************************************************************)
EXTENDS Integers, Sequences, FiniteSets, TLC

(***************************************************************************)
(* Bounds of the model.                                                    *)
(***************************************************************************)
\* total number of session links over all Speaking/Moderating lists
MaxLinks == 2
\* number of rows in the mirror table before the first run
MaxMirror == 2
\* number of entries of modified_sessions in one run of the field-sync job
MaxModified == 2
\* last value of the clock; the first run starts at 0
MaxClock == 2

(***************************************************************************)
(* Program constants.                                                      *)
(***************************************************************************)
\* batch_size = 10 of the create, update and delete loops
batch_size == 10
\* timedelta(days=1): the look-back used when no state file exists
DefaultLookback == 1

(***************************************************************************)
(* Identifiers.  Table row identifiers are opaque alphanumeric strings and *)
(* never contain the "_" that the composite key uses as its delimiter.     *)
(***************************************************************************)
Speakers == {"spk1", "spk2"}
Sessions == {"sess1"}
Roles == {"Speaking", "Moderating"}
\* the order in which the view returns the speaker rows
ViewOrder == <<"spk1", "spk2">>

VARIABLES
    \* ---- the two remote tables, the clock and the state file ----
    source,               \* speaker row id -> fields of the source table row
    mirror,               \* rows of the destination (mirror) table, in fetch order
    nextId,               \* next fresh row identifier of the mirror table
    full_cleanup,         \* FULL_CLEANUP environment flag
    now,                  \* datetime.now()
    state_file,           \* last_sync_state.txt: <<>> when absent, <<t>> otherwise
    \* ---- process_airtable_data: position and locals ----
    pc,
    prev_ok,              \* the previous run ended with "Sync completed successfully"
    prev_existing_records, \* the mirror rows the previous run fetched, if it succeeded
    base_mirror,          \* history of full-cleanup runs: the mirror at the start of the
                          \* first run since the last success
    failed_runs,          \* history of full-cleanup runs: the runs that failed since then,
                          \* "none", "one" or "several"
    unsynced,             \* history: source rows modified after a watermark was written and
                          \* selected by no fetch since
    exit_code,
    last_sync_time,
    records,
    existing_records,
    existing_record_map,
    valid_combinations,
    records_to_create,
    records_to_update,
    records_to_delete,
    created_count,
    updated_count,
    deleted_count,
    \* ---- check_and_update_sessions / update_cvent_session ----
    mpc,
    modified_count,       \* number of entries of modified_sessions
    session_index,        \* position of the loop over modified_sessions
    table_record,         \* the Table record of the current entry
    session_data,         \* the change-set the record reader built from it
    existing_session,     \* the answer of get_cvent_session
    payload,              \* the body of the session PUT
    calls,                \* write requests issued for the current session
    put_sessions,         \* entries for which the session PUT was issued
    skipped_sessions,     \* entries skipped because the GET failed
    custom_field_sessions, \* entries for which a custom-field answer was written
    \* ---- update_session_speakers ----
    rpc,
    remote_roster,        \* the session's speakers at the Event API
    airtable_speaker_codes,
    airtable_moderator_codes,
    speaker_categories,   \* CVENT_SPEAKER_CATEGORIES
    current_speakers,
    all_airtable_speakers,
    to_remove,
    to_add,
    roster_calls,         \* removal and assignment requests, in order of issue
    roster_fetch_ok       \* get_cvent_session_speakers received a 200 answer

dedupVars == <<source, mirror, nextId, full_cleanup, now, state_file, pc,
               prev_ok, prev_existing_records, base_mirror, failed_runs, unsynced,
               exit_code, last_sync_time, records, existing_records,
               existing_record_map, valid_combinations, records_to_create,
               records_to_update, records_to_delete, created_count,
               updated_count, deleted_count>>

mergeVars == <<mpc, modified_count, session_index, table_record, session_data,
               existing_session, payload, calls, put_sessions, skipped_sessions,
               custom_field_sessions>>

rosterVars == <<rpc, remote_roster, airtable_speaker_codes, airtable_moderator_codes,
                speaker_categories, current_speakers, all_airtable_speakers,
                to_remove, to_add, roster_calls, roster_fetch_ok>>

vars == <<dedupVars, mergeVars, rosterVars>>

(***************************************************************************)
(* Helpers on sequences.                                                   *)
(***************************************************************************)
SeqsUpTo(S, n) == UNION {[1..k -> S] : k \in 0..n}

Range(s) == {s[i] : i \in 1..Len(s)}

Min(a, b) == IF a <= b THEN a ELSE b

RECURSIVE Flatten(_)
Flatten(ss) == IF ss = <<>> THEN <<>> ELSE Head(ss) \o Flatten(Tail(ss))

(***************************************************************************)
(* sessions_dedup_sync.py                                                  *)
(***************************************************************************)
\* f"{speaker_id}_{session_id}_{role}"
Key(speaker_id, session_id, role) == speaker_id \o "_" \o session_id \o "_" \o role

\* er_fields.get('Speaker', [''])[0] if er_fields.get('Speaker') else ''
FirstOrEmpty(list) == IF list # <<>> THEN list[1] ELSE ""

RowKey(er) == Key(FirstOrEmpty(er.fields.Speaker), FirstOrEmpty(er.fields.Session),
                  er.fields.Role)

\* if speaker_id and session_id and role
RowComplete(er) ==
    /\ FirstOrEmpty(er.fields.Speaker) # ""
    /\ FirstOrEmpty(er.fields.Session) # ""
    /\ er.fields.Role # ""

\* the lookup dictionary: a later row with the same key replaces the earlier one
BuildExistingMap(existing) ==
    LET complete == {i \in 1..Len(existing) : RowComplete(existing[i])}
        keys == {RowKey(existing[i]) : i \in complete}
        last(k) == CHOOSE i \in complete :
                      /\ RowKey(existing[i]) = k
                      /\ \A j \in complete : RowKey(existing[j]) = k => j <= i
    IN [k \in keys |-> existing[last(k)].id]

\* the session_fields dictionary of one synthesized relationship
SessionFields(record, session_id, role) ==
    [Name |-> record.fields.Name,
     Speaker |-> <<record.id>>,
     Session |-> <<session_id>>,
     Role |-> role,
     SChannel |-> record.fields.SChannel]

\* the relationships of one speaker row: the Speaking loop, then the Moderating loop
Synthesize(record) ==
    [i \in 1..Len(record.fields.Speaking) |->
        SessionFields(record, record.fields.Speaking[i], "Speaking")]
    \o
    [i \in 1..Len(record.fields.Moderating) |->
        SessionFields(record, record.fields.Moderating[i], "Moderating")]

\* every synthesized relationship of the fetched rows, in processing order
Synthesized(recs) == Flatten([i \in 1..Len(recs) |-> Synthesize(recs[i])])

FieldsKey(f) == Key(f.Speaker[1], f.Session[1], f.Role)

ValidCombinations(recs) == {FieldsKey(f) : f \in Range(Synthesized(recs))}

\* faulty variant: the lookup in existing_record_map is skipped
RecordsToCreate_WithoutLookup(recs, map) == Synthesized(recs)

RecordsToCreate(recs, map) ==
    LET isNew(f) == FieldsKey(f) \notin DOMAIN map
    IN SelectSeq(Synthesized(recs), isNew)

RecordsToUpdate(recs, map) ==
    LET exists(f) == FieldsKey(f) \in DOMAIN map
        hits == SelectSeq(Synthesized(recs), exists)
    IN [i \in 1..Len(hits) |-> [id |-> map[FieldsKey(hits[i])], fields |-> hits[i]]]

\* full cleanup: the items of the dictionary whose key is not valid, in
\* insertion order (the order of the first row holding each key)
DeleteFull(existing, map, valid) ==
    LET first(i) == /\ RowComplete(existing[i])
                    /\ \A j \in 1..(i - 1) :
                          RowComplete(existing[j]) => RowKey(existing[j]) # RowKey(existing[i])
        pick(i) == IF first(i) /\ RowKey(existing[i]) \notin valid
                   THEN <<map[RowKey(existing[i])]>> ELSE <<>>
    IN Flatten([i \in 1..Len(existing) |-> pick(i)])

\* faulty variant: the restriction to the processed speakers is dropped
DeletePartial_AnySpeaker(existing, recs, valid) ==
    LET stale(er) == RowKey(er) \notin valid
        hits == SelectSeq(existing, stale)
    IN [i \in 1..Len(hits) |-> hits[i].id]

\* partial cleanup: rows of the speakers processed in this run whose key is not valid
DeletePartial(existing, recs, valid) ==
    LET processed_speaker_ids == {recs[i].id : i \in 1..Len(recs)}
        stale(er) == /\ FirstOrEmpty(er.fields.Speaker) \in processed_speaker_ids
                     /\ RowKey(er) \notin valid
        hits == SelectSeq(existing, stale)
    IN [i \in 1..Len(hits) |-> hits[i].id]

RecordsToDelete(full, existing, recs, map, valid) ==
    IF full THEN DeleteFull(existing, map, valid)
    ELSE DeletePartial(existing, recs, valid)

\* get_last_sync_time
GetLastSyncTime(file, t) == IF file # <<>> THEN file[1] ELSE t - DefaultLookback

\* source_table.all(view=..., formula=...)
FetchRecords(src, full, since) ==
    LET all == [i \in 1..Len(ViewOrder) |-> [id |-> ViewOrder[i], fields |-> src[ViewOrder[i]]]]
        modified(r) == r.fields.modified >= since
    IN IF full THEN all ELSE SelectSeq(all, modified)

\* faulty variant: the watermark is written before the delete loop
PhaseAfter_WatermarkBeforeDeletes(p, creates, updates, deletes) ==
    IF p = "plan" /\ creates # <<>> THEN "create"
    ELSE IF p \in {"plan", "create"} /\ updates # <<>> THEN "update"
    ELSE "watermark"

\* faulty variant: the delete loop runs before the update loop
PhaseAfter_DeletesBeforeUpdates(p, creates, updates, deletes) ==
    IF p = "plan" /\ creates # <<>> THEN "create"
    ELSE IF p \in {"plan", "create"} /\ deletes # <<>> THEN "delete"
    ELSE IF p \in {"plan", "create", "delete"} /\ updates # <<>> THEN "update"
    ELSE "watermark"

\* the phase that follows phase p: a phase with an empty list is skipped
PhaseAfter(p, creates, updates, deletes) ==
    IF p = "plan" /\ creates # <<>> THEN "create"
    ELSE IF p \in {"plan", "create"} /\ updates # <<>> THEN "update"
    ELSE IF p \in {"plan", "create", "update"} /\ deletes # <<>> THEN "delete"
    ELSE "watermark"

\* dest_table.batch_create: one new row per element, with fresh identifiers
BatchCreate(table, first, batch) ==
    table \o [i \in 1..Len(batch) |-> [id |-> first + i - 1, fields |-> batch[i]]]

\* dest_table.batch_update: the listed fields of each named row are overwritten
RECURSIVE BatchUpdate(_, _)
BatchUpdate(table, batch) ==
    IF batch = <<>> THEN table
    ELSE LET u == Head(batch)
             t2 == [i \in 1..Len(table) |->
                       IF table[i].id = u.id THEN [table[i] EXCEPT !.fields = u.fields]
                       ELSE table[i]]
         IN BatchUpdate(t2, Tail(batch))

\* dest_table.batch_delete
BatchDelete(table, batch) ==
    LET keep(er) == er.id \notin Range(batch)
    IN SelectSeq(table, keep)

(***************************************************************************)
(* Initial states of the dedup job.                                        *)
(***************************************************************************)
SpeakerName(s) == IF s = "spk1" THEN "Ann" ELSE "Bob"

SourceRows(s) ==
    [Name : {SpeakerName(s)},
     SChannel : {<<"Main">>},
     Speaking : SeqsUpTo(Sessions, MaxLinks),
     Moderating : SeqsUpTo(Sessions, MaxLinks),
     modified : {0 - DefaultLookback - 1, 0 - DefaultLookback}]

TotalLinks(src) ==
    LET n(s) == Len(src[s].Speaking) + Len(src[s].Moderating)
    IN n("spk1") + n("spk2")

\* rows found in the mirror before the first run: complete rows of either
\* role, and Speaking rows whose Speaker link or Session link was cleared
SpeakerOpts == <<<<>>, <<"spk1">>, <<"spk2">>>>
SessionOpts == <<<<>>, <<"sess1">>>>
RoleOpts == <<"Speaking", "Moderating">>

MirrorChoices ==
    LET all == Flatten([i \in 1..Len(SpeakerOpts) |->
                   Flatten([j \in 1..Len(SessionOpts) |->
                       [k \in 1..Len(RoleOpts) |->
                           [Name |-> "Old",
                            Speaker |-> SpeakerOpts[i],
                            Session |-> SessionOpts[j],
                            Role |-> RoleOpts[k],
                            SChannel |-> <<>>]]])])
        choice(f) == \/ f.Speaker # <<>> /\ f.Session # <<>>
                     \/ f.Speaker # <<>> /\ f.Role = "Speaking"
                     \/ f.Session # <<>> /\ f.Role = "Speaking"
    IN SelectSeq(all, choice)

\* the rows are listed in the order of MirrorChoices: the order of two rows
\* with different fields only permutes their identifiers
InitialMirrors ==
    LET sorted(ix) == \A i \in 1..(Len(ix) - 1) : ix[i] <= ix[i + 1]
        picks == {ix \in SeqsUpTo(1..Len(MirrorChoices), MaxMirror) : sorted(ix)}
    IN {[i \in 1..Len(ix) |-> [id |-> i, fields |-> MirrorChoices[ix[i]]]] : ix \in picks}

\* inputs that need more than one batch per loop: one speaker whose lists
\* hold batch_size + 1 links, and a mirror with batch_size + 1 stale rows of
\* distinct sessions
LongList == batch_size + 1

Repeat(x, n) == [i \in 1..n |-> x]

LongSources ==
    {[s \in Speakers |->
        [Name |-> SpeakerName(s),
         SChannel |-> <<"Main">>,
         Speaking |-> IF s = "spk1" THEN Repeat("sess1", a) ELSE <<>>,
         Moderating |-> IF s = "spk1" THEN Repeat("sess1", b) ELSE <<>>,
         modified |-> 0 - DefaultLookback]] : a \in {0, LongList}, b \in {0, LongList}}

LongMirrors ==
    LET row(speaker, session) ==
            [Name |-> "Old", Speaker |-> <<speaker>>, Session |-> <<session>>,
             Role |-> "Speaking", SChannel |-> <<>>]
        rows(e, k) == [i \in 1..(e + k) |->
                          [id |-> i,
                           fields |-> IF i <= e THEN row("spk1", "sess1")
                                      ELSE row("spk2", "sess" \o ToString(i + 1))]]
    IN {rows(e, k) : e \in {0, 1}, k \in {0, LongList}}

DedupInit ==
    /\ now = 0
    /\ full_cleanup \in BOOLEAN
    /\ \/ /\ source \in {src \in [Speakers -> UNION {SourceRows(s) : s \in Speakers}] :
                     /\ \A s \in Speakers : src[s].Name = SpeakerName(s)
                     /\ TotalLinks(src) <= MaxLinks
                     /\ full_cleanup => \A s \in Speakers : src[s].modified = 0 - DefaultLookback}
          /\ mirror \in InitialMirrors
       \/ /\ source \in LongSources
          /\ mirror \in LongMirrors
    /\ nextId = Len(mirror) + 1
    /\ state_file = <<>>
    /\ pc = "idle"
    /\ prev_ok = FALSE
    /\ prev_existing_records = <<>>
    /\ base_mirror = mirror
    /\ failed_runs = "none"
    /\ unsynced = {}
    /\ exit_code = 0
    /\ last_sync_time = 0
    /\ records = <<>>
    /\ existing_records = <<>>
    /\ existing_record_map = <<>>
    /\ valid_combinations = {}
    /\ records_to_create = <<>>
    /\ records_to_update = <<>>
    /\ records_to_delete = <<>>
    /\ created_count = 0
    /\ updated_count = 0
    /\ deleted_count = 0

(***************************************************************************)
(* process_airtable_data, one action per network round.                    *)
(***************************************************************************)
\* lines 34-178: read the watermark, fetch both tables, classify
FetchAndPlan ==
    /\ pc = "idle"
    /\ LET since == GetLastSyncTime(state_file, now)
           recs == FetchRecords(source, full_cleanup, since)
           map == BuildExistingMap(mirror)
           valid == ValidCombinations(recs)
           creates == RecordsToCreate(recs, map)
           updates == RecordsToUpdate(recs, map)
           deletes == RecordsToDelete(full_cleanup, mirror, recs, map, valid)
       IN /\ last_sync_time' = since
          /\ records' = recs
          /\ existing_records' = mirror
          /\ existing_record_map' = map
          /\ valid_combinations' = valid
          /\ records_to_create' = creates
          /\ records_to_update' = updates
          /\ records_to_delete' = deletes
          /\ pc' = PhaseAfter("plan", creates, updates, deletes)
          /\ unsynced' = unsynced \ {recs[i].id : i \in 1..Len(recs)}
    /\ created_count' = 0
    /\ updated_count' = 0
    /\ deleted_count' = 0
    /\ UNCHANGED <<source, mirror, nextId, full_cleanup, now, state_file,
                   prev_ok, prev_existing_records, base_mirror, failed_runs, exit_code>>
    /\ UNCHANGED <<mergeVars, rosterVars>>

\* source_table.all or dest_table.all raises: the except clause exits with 1
FetchFails ==
    /\ pc = "idle"
    /\ last_sync_time' = GetLastSyncTime(state_file, now)
    /\ pc' = "failed"
    /\ exit_code' = 1
    /\ UNCHANGED <<source, mirror, nextId, full_cleanup, now, state_file,
                   prev_ok, prev_existing_records, base_mirror, failed_runs, unsynced, records, existing_records, existing_record_map,
                   valid_combinations, records_to_create, records_to_update,
                   records_to_delete, created_count, updated_count, deleted_count>>
    /\ UNCHANGED <<mergeVars, rosterVars>>

\* lines 186-191: one iteration of the create loop
CreateBatch ==
    /\ pc = "create"
    /\ LET upto == Min(created_count + batch_size, Len(records_to_create))
           batch == SubSeq(records_to_create, created_count + 1, upto)
       IN /\ mirror' = BatchCreate(mirror, nextId, batch)
          /\ nextId' = nextId + Len(batch)
          /\ created_count' = created_count + Len(batch)
          /\ pc' = IF upto < Len(records_to_create) THEN "create"
                   ELSE PhaseAfter("create", records_to_create, records_to_update,
                                   records_to_delete)
    /\ UNCHANGED <<source, full_cleanup, now, state_file, prev_ok, prev_existing_records, base_mirror, failed_runs, unsynced, exit_code,
                   last_sync_time, records, existing_records, existing_record_map,
                   valid_combinations, records_to_create, records_to_update,
                   records_to_delete, updated_count, deleted_count>>
    /\ UNCHANGED <<mergeVars, rosterVars>>

\* lines 201-206: one iteration of the update loop
UpdateBatch ==
    /\ pc = "update"
    /\ LET upto == Min(updated_count + batch_size, Len(records_to_update))
           batch == SubSeq(records_to_update, updated_count + 1, upto)
       IN /\ mirror' = BatchUpdate(mirror, batch)
          /\ updated_count' = updated_count + Len(batch)
          /\ pc' = IF upto < Len(records_to_update) THEN "update"
                   ELSE PhaseAfter("update", records_to_create, records_to_update,
                                   records_to_delete)
    /\ UNCHANGED <<source, nextId, full_cleanup, now, state_file, prev_ok, prev_existing_records, base_mirror, failed_runs, unsynced,
                   exit_code, last_sync_time, records, existing_records,
                   existing_record_map, valid_combinations, records_to_create,
                   records_to_update, records_to_delete, created_count, deleted_count>>
    /\ UNCHANGED <<mergeVars, rosterVars>>

\* lines 216-221: one iteration of the delete loop
DeleteBatch ==
    /\ pc = "delete"
    /\ LET upto == Min(deleted_count + batch_size, Len(records_to_delete))
           batch == SubSeq(records_to_delete, deleted_count + 1, upto)
       IN /\ mirror' = BatchDelete(mirror, batch)
          /\ deleted_count' = deleted_count + Len(batch)
          /\ pc' = IF upto < Len(records_to_delete) THEN "delete"
                   ELSE PhaseAfter("delete", records_to_create, records_to_update,
                                   records_to_delete)
    /\ UNCHANGED <<source, nextId, full_cleanup, now, state_file, prev_ok, prev_existing_records, base_mirror, failed_runs, unsynced,
                   exit_code, last_sync_time, records, existing_records,
                   existing_record_map, valid_combinations, records_to_create,
                   records_to_update, records_to_delete, created_count, updated_count>>
    /\ UNCHANGED <<mergeVars, rosterVars>>

\* a batch call raises: lines 230-232 log the error and exit with 1
BatchFails ==
    /\ pc \in {"create", "update", "delete"}
    /\ pc' = "failed"
    /\ exit_code' = 1
    /\ UNCHANGED <<source, mirror, nextId, full_cleanup, now, state_file,
                   prev_ok, prev_existing_records, base_mirror, failed_runs, unsynced, last_sync_time, records, existing_records,
                   existing_record_map, valid_combinations, records_to_create,
                   records_to_update, records_to_delete, created_count,
                   updated_count, deleted_count>>
    /\ UNCHANGED <<mergeVars, rosterVars>>

\* update_last_sync_time: the state file receives the current time
WriteStateFile(file, t) == <<t>>

\* lines 225-228: the watermark is written and the run ends successfully
UpdateLastSyncTime ==
    /\ pc = "watermark"
    /\ state_file' = WriteStateFile(state_file, now)
    /\ pc' = "done"
    /\ exit_code' = 0
    /\ UNCHANGED <<source, mirror, nextId, full_cleanup, now, prev_ok, prev_existing_records, base_mirror, failed_runs, unsynced,
                   last_sync_time, records, existing_records, existing_record_map,
                   valid_combinations, records_to_create, records_to_update,
                   records_to_delete, created_count, updated_count, deleted_count>>
    /\ UNCHANGED <<mergeVars, rosterVars>>

\* lines 258-259: the write raises, a warning is logged, the run still succeeds
UpdateLastSyncTimeWarns ==
    /\ pc = "watermark"
    /\ pc' = "done"
    /\ exit_code' = 0
    /\ UNCHANGED <<source, mirror, nextId, full_cleanup, now, state_file,
                   prev_ok, prev_existing_records, base_mirror, failed_runs, unsynced, last_sync_time, records, existing_records,
                   existing_record_map, valid_combinations, records_to_create,
                   records_to_update, records_to_delete, created_count,
                   updated_count, deleted_count>>
    /\ UNCHANGED <<mergeVars, rosterVars>>

\* the scheduler starts the job again, with the same environment; the source
\* rows and the mirror are as the previous run left them
Rerun ==
    /\ pc \in {"done", "failed"}
    /\ prev_ok' = (pc = "done")
    /\ prev_existing_records' = IF pc = "done" THEN existing_records ELSE <<>>
    /\ base_mirror' = IF full_cleanup /\ pc = "done" THEN mirror ELSE base_mirror
    /\ failed_runs' = IF ~full_cleanup \/ pc = "done" THEN "none"
                      ELSE IF failed_runs = "none" THEN "one" ELSE "several"
    /\ pc' = "idle"
    /\ exit_code' = 0
    /\ records' = <<>>
    /\ existing_records' = <<>>
    /\ existing_record_map' = <<>>
    /\ valid_combinations' = {}
    /\ records_to_create' = <<>>
    /\ records_to_update' = <<>>
    /\ records_to_delete' = <<>>
    /\ created_count' = 0
    /\ updated_count' = 0
    /\ deleted_count' = 0
    /\ last_sync_time' = 0
    /\ UNCHANGED <<source, mirror, nextId, full_cleanup, now, state_file, unsynced>>
    /\ UNCHANGED <<mergeVars, rosterVars>>

\* a second passes
Tick ==
    /\ now < MaxClock
    /\ now' = now + 1
    /\ UNCHANGED <<source, mirror, nextId, full_cleanup, state_file, pc,
                   prev_ok, prev_existing_records, base_mirror, failed_runs, unsynced,
                   exit_code, last_sync_time, records, existing_records,
                   existing_record_map, valid_combinations, records_to_create,
                   records_to_update, records_to_delete, created_count,
                   updated_count, deleted_count>>
    /\ UNCHANGED <<mergeVars, rosterVars>>

\* the name an editor gives a speaker row
Renamed(s, name) == IF name = SpeakerName(s) THEN SpeakerName(s) \o " Jr" ELSE SpeakerName(s)

\* an editor changes a tracked field of a source row, at any point of a run
\* or between runs: the speaker is renamed or the Speaking links are cleared,
\* and the table stamps the row with the current time
ModifySpeaker ==
    /\ \E s \in Speakers :
          /\ \/ source' = [source EXCEPT ![s].Name = Renamed(s, @),
                                         ![s].modified = now]
             \/ /\ source[s].Speaking # <<>>
                /\ source' = [source EXCEPT ![s].Speaking = <<>>,
                                            ![s].modified = now]
          /\ unsynced' = IF state_file # <<>> THEN unsynced \cup {s} ELSE unsynced
    /\ UNCHANGED <<mirror, nextId, full_cleanup, now, state_file, pc,
                   prev_ok, prev_existing_records, base_mirror, failed_runs,
                   exit_code, last_sync_time, records, existing_records,
                   existing_record_map, valid_combinations, records_to_create,
                   records_to_update, records_to_delete, created_count,
                   updated_count, deleted_count>>
    /\ UNCHANGED <<mergeVars, rosterVars>>

(***************************************************************************)
(* main.py: the record reader and update_cvent_session.                    *)
(* Every JSON value is written as a string: an object such as              *)
(* {"id": "loc-A"} as "{id: loc-A}", Python's None as "None".              *)
(***************************************************************************)
None == "None"

CVENT_EVENT_ID == "event-1"

\* the snapshot of get_cvent_session_locations: {Location Name: Location ID}
CVENT_SESSION_LOCATIONS == [n \in {"Room A"} |-> "loc-A"]

\* the field list of update_cvent_session
additional_fields ==
    {"code", "category", "automaticallyOpensOn", "automaticallyClosesOn",
     "enableWaitlist", "waitlistCapacity", "enableWaitlistVirtual",
     "capacity", "capacityUnlimited", "capacityVirtual", "virtualCapacityUnlimited",
     "waitlistCapacityVirtual", "displayOnAgenda", "featured", "group",
     "admissionItems", "openForRegistration", "openForAttendeeHub",
     "registrationTypes", "presentationType", "dataTagCode", "status"}

\* d.get(k, default)
DictGet(d, k, default) == IF k \in DOMAIN d THEN d[k] ELSE default

\* str.strip() on the strings of the model: none has surrounding white
\* space except the string of two spaces
Strip(str) == IF str = "  " THEN "" ELSE str

\* datetime.strptime(..., "%m/%d/%Y %I:%M %p"), localized to
\* America/Los_Angeles and rendered in UTC; None on ValueError
convert_airtable_to_cvent_datetime(airtable_datetime) ==
    IF airtable_datetime = "04/08/2025 09:00 PM" THEN "2025-04-09T04:00:00.000Z"
    ELSE IF airtable_datetime = "04/08/2025 10:00 PM" THEN "2025-04-09T05:00:00.000Z"
    ELSE None

convert_markdown_to_html(markdown_text) ==
    IF markdown_text = "" THEN ""
    ELSE IF markdown_text = "**Hi**" THEN "<p><strong>Hi</strong></p>"
    ELSE "<p>" \o markdown_text \o "</p>"

\* the fields of a Table record; "" and <<>> stand for a field the Table API
\* leaves out because it is empty
TableRecords ==
    [title : {"", "  ", "New Title"},
     start : {"", "04/08/2025 09:00 PM", "tomorrow"},
     end : {"", "04/08/2025 10:00 PM"},
     description : {"", "**Hi**"},
     location : {"", "Room A", "Lobby"},
     speakers : {<<>>, <<"c1">>},
     moderators : {<<"c2">>},
     stage : {"", "Main"},
     type : {"", "Panel"},
     tags : {<<>>, <<"AI">>}]

\* [code.strip() for code in ... if code.strip()]
StripCodes(codes) ==
    LET stripped == [i \in 1..Len(codes) |-> Strip(codes[i])]
        kept(code) == code # ""
    IN SelectSeq(stripped, kept)

\* one entry of the dictionary get_modified_airtable_sessions returns
ReadRecord(record) ==
    [title |-> Strip(record.title),
     start_time |-> convert_airtable_to_cvent_datetime(record.start),
     end_time |-> convert_airtable_to_cvent_datetime(record.end),
     description |-> Strip(record.description),
     location |-> Strip(record.location),
     speakers |-> StripCodes(record.speakers),
     moderators |-> StripCodes(record.moderators),
     stage |-> Strip(record.stage),
     type |-> Strip(record.type),
     tags |-> record.tags]

\* the sessions the Event API may hold: title, start and end are always
\* present, the other attributes only when they have a value
RemoteValues ==
    [k \in {"title", "start", "end", "description", "location", "type"}
           \cup additional_fields |->
        IF k = "title" THEN "Old Title"
        ELSE IF k = "start" THEN "2025-04-08T16:00:00.000Z"
        ELSE IF k = "end" THEN "2025-04-08T17:00:00.000Z"
        ELSE IF k = "description" THEN "<p>Old</p>"
        ELSE IF k = "location" THEN "{id: loc-B}"
        ELSE IF k = "type" THEN "{name: Talk}"
        ELSE "remote " \o k]

RemoteSessions ==
    {[k \in {"title", "start", "end"} \cup opt \cup add |-> RemoteValues[k]] :
        opt \in SUBSET {"description", "location", "type"},
        add \in {{"code", "status"}, additional_fields}}

\* lines 392-443: the body of the PUT
BuildPayload(sd, existing) ==
    LET location ==
            IF "location" \in DOMAIN sd /\ Strip(sd.location) # ""
            THEN LET loc_id == DictGet(CVENT_SESSION_LOCATIONS, sd.location, None)
                 IN IF loc_id # None THEN "{id: " \o loc_id \o "}"
                    ELSE DictGet(existing, "location", None)
            ELSE DictGet(existing, "location", None)
        new_type == DictGet(sd, "type", None)
        type == IF new_type # None /\ new_type # "" /\ Strip(new_type) # ""
                THEN "{name: " \o Strip(new_type) \o "}"
                ELSE DictGet(existing, "type", None)
        additional(field) ==
            LET new_val == DictGet(sd, field, None)
            IN IF new_val = None \/ Strip(new_val) = ""
               THEN DictGet(existing, field, None) ELSE new_val
        present == {f \in additional_fields : additional(f) # None}
    IN [k \in {"event", "title", "description", "start", "end", "location", "type"}
              \cup present |->
          IF k = "event" THEN "{id: " \o CVENT_EVENT_ID \o "}"
          ELSE IF k = "title" THEN DictGet(sd, "title", DictGet(existing, "title", None))
          ELSE IF k = "description" THEN
              IF "description" \in DOMAIN sd /\ Strip(sd.description) # ""
              THEN convert_markdown_to_html(sd.description)
              ELSE DictGet(existing, "description", "")
          ELSE IF k = "start" THEN DictGet(sd, "start_time", DictGet(existing, "start", None))
          ELSE IF k = "end" THEN DictGet(sd, "end_time", DictGet(existing, "end", None))
          ELSE IF k = "location" THEN location
          ELSE IF k = "type" THEN type
          ELSE additional(k)]

\* the answers of get_cvent_custom_fields: every field, or none when the
\* request fails
CustomFieldSnapshots ==
    {[n \in {"stage", "type", "tags"} |-> "cf-" \o n], [n \in {} |-> ""]}

\* lines 465-472: the custom-field writes of one session
CustomFieldCalls(sd, custom_fields) ==
    (IF "stage" \in DOMAIN sd /\ sd.stage # ""
     THEN <<[op |-> "custom-field", id |-> DictGet(custom_fields, "stage", None),
             value |-> <<sd.stage>>]>> ELSE <<>>)
    \o
    (IF "type" \in DOMAIN sd /\ sd.type # ""
     THEN <<[op |-> "custom-field", id |-> DictGet(custom_fields, "type", None),
             value |-> <<sd.type>>]>> ELSE <<>>)
    \o
    (IF "tags" \in DOMAIN sd /\ sd.tags # <<>>
     THEN <<[op |-> "custom-field", id |-> DictGet(custom_fields, "tags", None),
             value |-> sd.tags]>> ELSE <<>>)

MergeIdle ==
    /\ mpc = "start"
    /\ modified_count = 0
    /\ session_index = 0
    /\ table_record = <<>>
    /\ session_data = <<>>
    /\ existing_session = <<>>
    /\ payload = <<>>
    /\ calls = <<>>
    /\ put_sessions = {}
    /\ skipped_sessions = {}
    /\ custom_field_sessions = {}

\* line 476: the record reader returns the modified sessions
GetModifiedSessions ==
    /\ mpc = "start"
    /\ \E n \in 0..MaxModified :
          /\ modified_count' = n
          /\ session_index' = IF n = 0 THEN 0 ELSE 1
          /\ mpc' = IF n = 0 THEN "end" ELSE "get"
    /\ UNCHANGED <<table_record, session_data, existing_session, payload, calls,
                   put_sessions, skipped_sessions, custom_field_sessions>>
    /\ UNCHANGED <<dedupVars, rosterVars>>

\* lines 385-446: the GET of the current session succeeds, the payload is built
GetSession ==
    /\ mpc = "get"
    /\ \E record \in TableRecords, existing \in RemoteSessions :
          /\ table_record' = record
          /\ session_data' = ReadRecord(record)
          /\ existing_session' = existing
          /\ payload' = BuildPayload(ReadRecord(record), existing)
    /\ mpc' = "put"
    /\ UNCHANGED <<modified_count, session_index, calls, put_sessions, skipped_sessions,
                   custom_field_sessions>>
    /\ UNCHANGED <<dedupVars, rosterVars>>

\* faulty variant: a failed GET ends the loop over modified_sessions
GetSessionFails_EndsRun ==
    /\ mpc = "get"
    /\ skipped_sessions' = skipped_sessions \cup {session_index}
    /\ session_index' = session_index + 1
    /\ mpc' = "end"
    /\ UNCHANGED <<modified_count, table_record, session_data, existing_session,
                   payload, calls, put_sessions, custom_field_sessions>>
    /\ UNCHANGED <<dedupVars, rosterVars>>

\* lines 117-121 and 386-388: the GET fails, the session is skipped
GetSessionFails ==
    /\ mpc = "get"
    /\ skipped_sessions' = skipped_sessions \cup {session_index}
    /\ session_index' = session_index + 1
    /\ mpc' = IF session_index < modified_count THEN "get" ELSE "end"
    /\ UNCHANGED <<modified_count, table_record, session_data, existing_session,
                   payload, calls, put_sessions, custom_field_sessions>>
    /\ UNCHANGED <<dedupVars, rosterVars>>

\* lines 449-459: the PUT; its status only selects the message printed
PutSession ==
    /\ mpc = "put"
    /\ calls' = Append(calls, [op |-> "session", id |-> None, value |-> <<>>])
    /\ put_sessions' = put_sessions \cup {session_index}
    /\ mpc' = "custom"
    /\ UNCHANGED <<modified_count, session_index, table_record, session_data,
                   existing_session, payload, skipped_sessions, custom_field_sessions>>
    /\ UNCHANGED <<dedupVars, rosterVars>>

\* lines 461-472: the custom-field answers are written
UpdateCustomFields ==
    /\ mpc = "custom"
    /\ \E custom_fields \in CustomFieldSnapshots :
          /\ calls' = calls \o CustomFieldCalls(session_data, custom_fields)
          /\ custom_field_sessions' =
                 IF CustomFieldCalls(session_data, custom_fields) # <<>>
                 THEN custom_field_sessions \cup {session_index}
                 ELSE custom_field_sessions
    /\ mpc' = "next"
    /\ UNCHANGED <<modified_count, session_index, table_record, session_data,
                   existing_session, payload, put_sessions, skipped_sessions>>
    /\ UNCHANGED <<dedupVars, rosterVars>>

\* lines 482-483: the loop moves to the next entry
NextSession ==
    /\ mpc = "next"
    /\ session_index' = session_index + 1
    /\ mpc' = IF session_index < modified_count THEN "get" ELSE "end"
    /\ table_record' = <<>>
    /\ session_data' = <<>>
    /\ existing_session' = <<>>
    /\ payload' = <<>>
    /\ calls' = <<>>
    /\ UNCHANGED <<modified_count, put_sessions, skipped_sessions, custom_field_sessions>>
    /\ UNCHANGED <<dedupVars, rosterVars>>

(***************************************************************************)
(* main.py: update_session_speakers.                                       *)
(***************************************************************************)
Persons == {"p1", "p2"}

\* the snapshot of get_cvent_speakers: {Speaker Code: Speaker ID}
AVAILABLE_SPEAKERS == [c \in {"c1", "c2"} |-> IF c = "c1" THEN "p1" ELSE "p2"]

\* the codes a Table record may list; "c9" is the code of no speaker
Codes == {"c1", "c2", "c9"}

RemoteCategories == {"cat-speaker", "cat-moderator", "cat-panelist"}

\* the answers of get_cvent_speaker_categories
CategorySnapshots ==
    {[n \in names |-> "cat-" \o n] : names \in {{"speaker", "moderator"}, {"speaker"}, {}}}

\* lines 319-327: the desired {person -> category} mapping
AllAirtableSpeakers(speaker_codes, moderator_codes, categories) ==
    LET speaker_category_id == DictGet(categories, "speaker", None)
        moderator_category_id == DictGet(categories, "moderator", None)
        airtable_speaker_ids ==
            {AVAILABLE_SPEAKERS[c] : c \in speaker_codes \cap DOMAIN AVAILABLE_SPEAKERS}
        airtable_moderator_ids ==
            {AVAILABLE_SPEAKERS[c] : c \in moderator_codes \cap DOMAIN AVAILABLE_SPEAKERS}
    IN [sp \in airtable_speaker_ids \cup airtable_moderator_ids |->
           IF sp \in airtable_moderator_ids THEN moderator_category_id
           ELSE speaker_category_id]

\* faulty variant: a speaker the Table no longer lists is left assigned
ToRemove_OnlyChanged(current, desired) ==
    {sp \in DOMAIN current \cap DOMAIN desired : desired[sp] # current[sp]}

\* lines 330-333
ToRemove(current, desired) ==
    {sp \in DOMAIN current : sp \notin DOMAIN desired \/ desired[sp] # current[sp]}

\* faulty variant: every desired speaker is assigned again
ToAdd_WithoutComparison(current, desired) == desired

\* lines 336-340
ToAdd(current, desired) ==
    [sp \in {q \in DOMAIN desired : q \notin DOMAIN current \/ current[q] # desired[q]}
        |-> desired[sp]]

\* faulty variant: the assignment loop runs before the removal loop
RosterPhase_AssignFirst(removals, additions) ==
    IF DOMAIN additions # {} THEN "assign"
    ELSE IF removals # {} THEN "remove"
    ELSE "done"

\* the loop that follows: removals first, then assignments
RosterPhase(removals, additions) ==
    IF removals # {} THEN "remove"
    ELSE IF DOMAIN additions # {} THEN "assign"
    ELSE "done"

RosterIdle ==
    /\ rpc = "start"
    /\ remote_roster = <<>>
    /\ airtable_speaker_codes = {}
    /\ airtable_moderator_codes = {}
    /\ speaker_categories = <<>>
    /\ current_speakers = <<>>
    /\ all_airtable_speakers = <<>>
    /\ to_remove = {}
    /\ to_add = <<>>
    /\ roster_calls = <<>>
    /\ roster_fetch_ok = FALSE

\* lines 316-340 with a successful get_cvent_session_speakers
FetchRosterAndDiff ==
    /\ rpc = "start"
    /\ LET desired == AllAirtableSpeakers(airtable_speaker_codes,
                                          airtable_moderator_codes, speaker_categories)
       IN /\ current_speakers' = remote_roster
          /\ all_airtable_speakers' = desired
          /\ to_remove' = ToRemove(remote_roster, desired)
          /\ to_add' = ToAdd(remote_roster, desired)
          /\ rpc' = RosterPhase(ToRemove(remote_roster, desired), ToAdd(remote_roster, desired))
    /\ roster_fetch_ok' = TRUE
    /\ UNCHANGED <<remote_roster, airtable_speaker_codes, airtable_moderator_codes,
                   speaker_categories, roster_calls>>
    /\ UNCHANGED <<dedupVars, mergeVars>>

\* lines 233-237: the roster request fails and the empty dictionary is used
FetchRosterFailsAndDiff ==
    /\ rpc = "start"
    /\ LET desired == AllAirtableSpeakers(airtable_speaker_codes,
                                          airtable_moderator_codes, speaker_categories)
       IN /\ current_speakers' = <<>>
          /\ all_airtable_speakers' = desired
          /\ to_remove' = ToRemove(<<>>, desired)
          /\ to_add' = ToAdd(<<>>, desired)
          /\ rpc' = RosterPhase(ToRemove(<<>>, desired), ToAdd(<<>>, desired))
    /\ roster_fetch_ok' = FALSE
    /\ UNCHANGED <<remote_roster, airtable_speaker_codes, airtable_moderator_codes,
                   speaker_categories, roster_calls>>
    /\ UNCHANGED <<dedupVars, mergeVars>>

\* the roster without one person
WithoutSpeaker(roster, sp) == [q \in DOMAIN roster \ {sp} |-> roster[q]]

\* the roster with one person assigned to a category
WithSpeaker(roster, sp, category) ==
    [q \in DOMAIN roster \cup {sp} |-> IF q = sp THEN category ELSE roster[q]]

\* lines 343-344: one removal request; ok is the 2xx answer
RemoveSpeaker ==
    /\ rpc = "remove"
    /\ \E sp \in to_remove, ok \in BOOLEAN :
          /\ remote_roster' = IF ok THEN WithoutSpeaker(remote_roster, sp) ELSE remote_roster
          /\ roster_calls' = Append(roster_calls, [op |-> "remove", speaker |-> sp,
                                                   category |-> None, ok |-> ok])
          /\ to_remove' = to_remove \ {sp}
          /\ rpc' = RosterPhase(to_remove \ {sp}, to_add)
    /\ UNCHANGED <<airtable_speaker_codes, airtable_moderator_codes, speaker_categories,
                   current_speakers, all_airtable_speakers, to_add, roster_fetch_ok>>
    /\ UNCHANGED <<dedupVars, mergeVars>>

\* lines 347-348: one assignment request; ok is the 2xx answer
AssignSpeaker ==
    /\ rpc = "assign"
    /\ \E sp \in DOMAIN to_add, ok \in BOOLEAN :
          /\ remote_roster' = IF ok THEN WithSpeaker(remote_roster, sp, to_add[sp])
                              ELSE remote_roster
          /\ roster_calls' = Append(roster_calls, [op |-> "assign", speaker |-> sp,
                                                   category |-> to_add[sp], ok |-> ok])
          /\ to_add' = WithoutSpeaker(to_add, sp)
          /\ rpc' = RosterPhase(to_remove, WithoutSpeaker(to_add, sp))
    /\ UNCHANGED <<airtable_speaker_codes, airtable_moderator_codes, speaker_categories,
                   current_speakers, all_airtable_speakers, to_remove, roster_fetch_ok>>
    /\ UNCHANGED <<dedupVars, mergeVars>>

(***************************************************************************)
(* Specifications: one per job.                                            *)
(***************************************************************************)
DedupIdle ==
    /\ now = 0
    /\ full_cleanup = FALSE
    /\ source = <<>>
    /\ mirror = <<>>
    /\ nextId = 1
    /\ state_file = <<>>
    /\ pc = "idle"
    /\ prev_ok = FALSE
    /\ prev_existing_records = <<>>
    /\ base_mirror = mirror
    /\ failed_runs = "none"
    /\ unsynced = {}
    /\ exit_code = 0
    /\ last_sync_time = 0
    /\ records = <<>>
    /\ existing_records = <<>>
    /\ existing_record_map = <<>>
    /\ valid_combinations = {}
    /\ records_to_create = <<>>
    /\ records_to_update = <<>>
    /\ records_to_delete = <<>>
    /\ created_count = 0
    /\ updated_count = 0
    /\ deleted_count = 0

Init == DedupInit /\ MergeIdle /\ RosterIdle

Next ==
    \/ FetchAndPlan
    \/ FetchFails
    \/ CreateBatch
    \/ UpdateBatch
    \/ DeleteBatch
    \/ BatchFails
    \/ UpdateLastSyncTime
    \/ UpdateLastSyncTimeWarns
    \/ Rerun

Spec == Init /\ [][Next]_vars

\* successful incremental runs of the dedup job while the clock advances and
\* editors change source rows
ClockInit ==
    /\ Init
    /\ ~full_cleanup
    /\ mirror = <<>>
    /\ \A s \in Speakers : /\ source[s].Moderating = <<>>
                            /\ source[s].modified = 0 - DefaultLookback
    /\ source["spk2"].Speaking = <<>>
    /\ Len(source["spk1"].Speaking) <= 1

ClockNext ==
    \/ FetchAndPlan
    \/ CreateBatch
    \/ UpdateBatch
    \/ DeleteBatch
    \/ UpdateLastSyncTime
    \/ UpdateLastSyncTimeWarns
    \/ Rerun
    \/ Tick
    \/ ModifySpeaker

ClockSpec == ClockInit /\ [][ClockNext]_vars

MergeInit == DedupIdle /\ MergeIdle /\ RosterIdle

MergeNext ==
    \/ GetModifiedSessions
    \/ GetSession
    \/ GetSessionFails
    \/ PutSession
    \/ UpdateCustomFields
    \/ NextSession

MergeSpec == MergeInit /\ [][MergeNext]_vars

RosterInit ==
    /\ DedupIdle
    /\ MergeIdle
    /\ rpc = "start"
    /\ remote_roster \in UNION {[ps -> RemoteCategories] : ps \in SUBSET Persons}
    /\ airtable_speaker_codes \in SUBSET Codes
    /\ airtable_moderator_codes \in SUBSET Codes
    /\ speaker_categories \in CategorySnapshots
    /\ current_speakers = <<>>
    /\ all_airtable_speakers = <<>>
    /\ to_remove = {}
    /\ to_add = <<>>
    /\ roster_calls = <<>>
    /\ roster_fetch_ok = FALSE

RosterNext ==
    \/ FetchRosterAndDiff
    \/ FetchRosterFailsAndDiff
    \/ RemoveSpeaker
    \/ AssignSpeaker

RosterSpec == RosterInit /\ [][RosterNext]_vars


(***************************************************************************)
(* Properties of the dedup job.                                            *)
(***************************************************************************)
\* the keys of the rows of a table that carry a speaker, a session and a role
MirrorKeys(table) == {RowKey(table[i]) : i \in {j \in 1..Len(table) : RowComplete(table[j])}}

\* the keys declared by the Speaking and Moderating lists of the source rows
SourceKeys ==
    UNION {{Key(s, source[s].Speaking[i], "Speaking") : i \in 1..Len(source[s].Speaking)}
           \cup {Key(s, source[s].Moderating[i], "Moderating") : i \in 1..Len(source[s].Moderating)}
           : s \in Speakers}

\* the identifiers of the speaker rows fetched in this run
ProcessedSpeakerIds == {records[i].id : i \in 1..Len(records)}

\* some other row of the table carries the key of row i
SharesKey(table, i) ==
    /\ RowComplete(table[i])
    /\ \E j \in 1..Len(table) : j # i /\ RowComplete(table[j]) /\ RowKey(table[j]) = RowKey(table[i])

\* C1: after a successful full-cleanup run the key set of the mirror equals
\* the key set synthesized from the Speaking and Moderating lists of the source.
C1_MirrorKeysEqualSourceKeys ==
    (pc = "done" /\ full_cleanup) => MirrorKeys(mirror) = SourceKeys

\* C2 as stated: the second of two successful full-cleanup runs over an
\* unchanged source queues no create, no update and no delete.
C2_SecondRunQueuesNothing ==
    (prev_ok /\ full_cleanup /\ pc = "done") =>
        /\ records_to_create = <<>>
        /\ records_to_update = <<>>
        /\ records_to_delete = <<>>

\* C2 as amended: the second run queues no create; it queues one update per
\* synthesized relationship; it queues a delete only for a row whose key was
\* shared by several rows of the mirror the first run started from.
C2_SecondRunCreatesNothing ==
    (prev_ok /\ full_cleanup /\ pc = "done") =>
        /\ records_to_create = <<>>
        /\ Len(records_to_update) = TotalLinks(source)
        /\ \A d \in Range(records_to_delete) :
              \E i \in 1..Len(prev_existing_records) :
                  /\ prev_existing_records[i].id = d
                  /\ SharesKey(prev_existing_records, i)

C2_Witness ==
    /\ prev_ok /\ full_cleanup /\ pc = "done"
    /\ Len(records_to_update) = 2
    /\ Len(prev_existing_records) = 1

\* C3: after a successful run no two rows of the mirror carry the same
\* (speaker, session, role) triple.
C3_MirrorUnique ==
    pc = "done" => \A i \in 1..Len(mirror) : ~SharesKey(mirror, i)

\* C4: in full-cleanup mode a fetched mirror row is queued for delete exactly
\* when its key is absent from valid_combinations.
C4_FullCleanupDeletesStaleRows ==
    full_cleanup =>
        \A i \in 1..Len(existing_records) :
            RowComplete(existing_records[i]) =>
                (existing_records[i].id \in Range(records_to_delete)
                    <=> RowKey(existing_records[i]) \notin valid_combinations)

\* C5: in a run without full cleanup, a fetched mirror row whose speaker is not
\* among the speaker rows fetched in this run is neither queued for delete nor
\* for update, and stays in the mirror as it was.
C5_UnfetchedSpeakersUntouched ==
    ~full_cleanup =>
        \A i \in 1..Len(existing_records) :
            FirstOrEmpty(existing_records[i].fields.Speaker) \notin ProcessedSpeakerIds =>
                /\ existing_records[i].id \notin Range(records_to_delete)
                /\ \A u \in Range(records_to_update) : u.id # existing_records[i].id
                /\ existing_records[i] \in Range(mirror)

C5_Witness ==
    /\ ~full_cleanup
    /\ pc = "done"
    /\ records_to_delete # <<>>
    /\ \E i \in 1..Len(existing_records) :
          /\ RowComplete(existing_records[i])
          /\ FirstOrEmpty(existing_records[i].fields.Speaker) \notin ProcessedSpeakerIds
          /\ RowKey(existing_records[i]) \notin SourceKeys
          /\ existing_records[i] \in Range(mirror)

\* C6: the state file changes only in the step that follows the last batch,
\* when every queued create, update and delete has been applied; a step that
\* ends the run in failure leaves the state file alone and exits with 1.
C6_WatermarkAfterAllBatches ==
    [][/\ state_file' # state_file =>
              /\ pc = "watermark"
              /\ created_count = Len(records_to_create)
              /\ updated_count = Len(records_to_update)
              /\ deleted_count = Len(records_to_delete)
       /\ pc' = "failed" => (state_file' = state_file /\ exit_code' = 1)]_vars

C6_Witness ==
    /\ pc = "failed"
    /\ exit_code = 1
    /\ prev_ok
    /\ state_file = <<now>>
    /\ updated_count > 0
    /\ deleted_count < Len(records_to_delete)

\* C13: within one run a create batch is issued only while no update and no
\* delete has been issued, an update batch only when every queued create has
\* been issued and no delete has, and a delete batch only when every queued
\* create and every queued update has been issued.
C13_CreatesThenUpdatesThenDeletes ==
    [][/\ created_count' > created_count =>
              (updated_count = 0 /\ deleted_count = 0)
       /\ updated_count' > updated_count =>
              (created_count = Len(records_to_create) /\ deleted_count = 0)
       /\ deleted_count' > deleted_count =>
              /\ created_count = Len(records_to_create)
              /\ updated_count = Len(records_to_update)]_vars

\* each loop needed more than one batch and the delete loop is under way
C13_Witness ==
    /\ pc = "delete"
    /\ created_count > batch_size
    /\ updated_count > batch_size
    /\ deleted_count >= batch_size
    /\ deleted_count < Len(records_to_delete)

\* the rows a table holds for a key, counted by their fields
RowCount(table, f) == Cardinality({i \in 1..Len(table) : table[i].fields = f})

SameRowsPerKey(t1, t2) ==
    LET complete(t) == {t[i].fields : i \in {j \in 1..Len(t) : RowComplete(t[j])}}
    IN \A f \in complete(t1) \cup complete(t2) : RowCount(t1, f) = RowCount(t2, f)

\* the mirror that one successful full-cleanup run leaves when it starts from
\* table and nothing interrupts it
UninterruptedRun(table) ==
    LET recs == FetchRecords(source, TRUE, 0)
        map == BuildExistingMap(table)
        valid == ValidCombinations(recs)
        created == BatchCreate(table, nextId, RecordsToCreate(recs, map))
        updated == BatchUpdate(created, RecordsToUpdate(recs, map))
    IN BatchDelete(updated, RecordsToDelete(TRUE, table, recs, map, valid))

\* C14: when a full-cleanup run has failed, after any number of its batches,
\* and the next run succeeds, the mirror holds for every key the rows that a
\* single uninterrupted run from the mirror the failed run started with leaves.
C14_RerunEqualsUninterruptedRun ==
    (pc = "done" /\ full_cleanup /\ failed_runs = "one") =>
        SameRowsPerKey(mirror, UninterruptedRun(base_mirror))

\* C16: in a sequence of successful incremental runs, every fetch of the
\* source rows selects each row that was modified after the previous watermark
\* was written and that no fetch has selected since: a row modified between
\* two runs is selected by the run that follows, a row modified after a run's
\* fetch and before its watermark by the next run.
C16_NoModificationLost ==
    [][(pc = "idle" /\ pc' # "idle") => unsynced' = {}]_vars

(***************************************************************************)
(* Properties of the field merge.                                          *)
(***************************************************************************)
\* the payload fields that are merged from the change-set and the remote session
MergedFields == {"title", "description", "start", "end", "location", "type"}
                    \cup additional_fields

\* the value the payload sends for a field: None when the field is left out
PayloadValue(k) == DictGet(payload, k, None)

\* the value the remote session holds for a field; a session without a
\* description counts as one with the empty description
RemoteValue(k) == DictGet(existing_session, k, IF k = "description" THEN "" ELSE None)

\* the values the record reader produces for empty Table fields
BlankExceptTitle(sd) ==
    /\ sd.start_time = None
    /\ sd.end_time = None
    /\ sd.description = ""
    /\ sd.location = ""
    /\ sd.stage = ""
    /\ sd.type = ""
    /\ sd.tags = <<>>

Unparseable(str) == str \notin {"04/08/2025 09:00 PM", "04/08/2025 10:00 PM"}

\* C7: for a change-set whose fields are all blank, every merged field of the
\* payload equals the value of the remote session.
C7_BlankChangeSetIsNoOp ==
    (mpc = "put" /\ session_data.title = "" /\ BlankExceptTitle(session_data)) =>
        \A k \in MergedFields : PayloadValue(k) = RemoteValue(k)

\* C8: for a change-set that supplies a title and nothing else, every merged
\* field of the payload other than the title equals the value of the remote
\* session.
C8_TitleOnlyKeepsOtherFields ==
    (mpc = "put" /\ session_data.title = "New Title" /\ BlankExceptTitle(session_data)) =>
        \A k \in MergedFields \ {"title"} : PayloadValue(k) = RemoteValue(k)

\* C9: an unparseable start or end time of the Table record converts to no
\* value, the update proceeds to the PUT, and the payload carries the start
\* or end of the remote session instead.
C9_UnparseableTimeFallsBack ==
    mpc = "put" =>
        /\ Unparseable(table_record.start) =>
              (session_data.start_time = None /\ PayloadValue("start") = RemoteValue("start"))
        /\ Unparseable(table_record.end) =>
              (session_data.end_time = None /\ PayloadValue("end") = RemoteValue("end"))

\* C11: when the job has finished an entry whose remote session was fetched,
\* update_session_speakers has run to its end for it with the speaker and
\* moderator codes of the entry, besides the session PUT and the custom-field
\* writes.
C11_RosterReconciledForEverySession ==
    mpc = "next" =>
        /\ session_index \in put_sessions
        /\ rpc = "done"
        /\ airtable_speaker_codes = Range(session_data.speakers)
        /\ airtable_moderator_codes = Range(session_data.moderators)

\* C12: an entry whose GET failed receives no session PUT and no custom-field
\* write, and when the run ends every other entry of modified_sessions has
\* received its session PUT.
C12_FailedGetSkipsOnlyThatSession ==
    /\ skipped_sessions \cap (put_sessions \cup custom_field_sessions) = {}
    /\ mpc = "get" => calls = <<>>
    /\ mpc = "end" => put_sessions = (1..modified_count) \ skipped_sessions

\* the GET of the first entry failed and the second entry was written in full
C12_Witness ==
    /\ mpc = "end"
    /\ modified_count > 1
    /\ skipped_sessions = {1}
    /\ modified_count \in put_sessions
    /\ modified_count \in custom_field_sessions

Recategorized ==
    {sp \in DOMAIN current_speakers \cap DOMAIN all_airtable_speakers :
        current_speakers[sp] # all_airtable_speakers[sp]}

Issued(op, sp) == {i \in 1..Len(roster_calls) :
                     roster_calls[i].op = op /\ roster_calls[i].speaker = sp}

AllCallsSucceeded == \A i \in 1..Len(roster_calls) : roster_calls[i].ok

\* C17 as stated: when update_session_speakers has ended and every removal
\* and assignment request succeeded, the roster of the session equals the
\* desired mapping.
C17_RosterEqualsDesired ==
    (rpc = "done" /\ AllCallsSucceeded) => remote_roster = all_airtable_speakers

\* C17 amended: the same when the roster request of the function succeeded
\* as well.
C17_RosterEqualsDesiredAfterFetch ==
    (rpc = "done" /\ roster_fetch_ok /\ AllCallsSucceeded) =>
        remote_roster = all_airtable_speakers

\* a person listed under both roles ends as moderator, the other person is removed
C17_Witness ==
    /\ rpc = "done"
    /\ roster_fetch_ok
    /\ AllCallsSucceeded
    /\ "c1" \in airtable_speaker_codes \cap airtable_moderator_codes
    /\ DOMAIN current_speakers = Persons
    /\ current_speakers["p1"] = "cat-speaker"
    /\ remote_roster = all_airtable_speakers
    /\ DOMAIN remote_roster = {"p1"}
    /\ remote_roster["p1"] = "cat-moderator"
    /\ Issued("remove", "p2") # {}

====
